---- MODULE Spec2Model ----
(***************************************************************************)
(* A model of ifaplib (src/ifaplib/__init__.py): the IFAP engine, which    *)
(* keeps a file index (_tree) over the messages of one IMAP folder, stages *)
(* writes in _unwritten and appends them to the folder in flush.           *)
(*                                                                         *)
(* The folder is a sequence of immutable messages; the sequence number of  *)
(* a message is its position.  The code never deletes a message (it only   *)
(* prints the set it would delete), so the folder only grows.              *)
(***************************************************************************)
EXTENDS Integers, Sequences, FiniteSets, TLC

VARIABLES folder, tree, unwritten, unwritten_bytes, config, sstack, lock,
          inside, call, tail

vars == <<folder, tree, unwritten, unwritten_bytes, config, sstack, lock,
          inside, call, tail>>

(***************************************************************************)
(* Bounds of the model.                                                    *)
(***************************************************************************)
MaxMsgs == 3
MaxForeign == 2
MaxCounter == 3
MaxLock == 2
MaxDepth == 1
SmallMaxBytes == 1

Engines == {"X", "Y"}
Paths == {"f", "g"}
Threads == {"T1", "T2"}

(***************************************************************************)
(* Program constants.                                                      *)
(***************************************************************************)
SNAPSHOT_FILE_PATH == "IFAP/metadata.json"
DefaultMaxBytes == 102400

(***************************************************************************)
(* JSON values of the "fn" key that are not strings.  FnInt stands for a   *)
(* hashable non-string (5, null, true): usable as a dict key.  FnList      *)
(* stands for an unhashable value (a list or an object): dict.get raises   *)
(* TypeError on it.                                                        *)
(***************************************************************************)
FnInt == "<int>"
FnList == "<list>"

Hashable(fn) == fn # FnList

EmptyMap == [k \in {} |-> 0]

Max(S) == CHOOSE x \in S : \A y \in S : y <= x

(***************************************************************************)
(* _IFAP_Config.  key = "none" stands for fernet = None; the Fernet object *)
(* is determined by the key, so the model keeps the key only.              *)
(***************************************************************************)
IFAP_Config(maxb, buf) ==
    [buffering_max_bytes |-> maxb, buffering |-> buf,
     encrypt |-> FALSE, key |-> "none"]

(***************************************************************************)
(* Messages.  xifap is the shape of the X-IFAP header of the message:      *)
(*   "none"    no X-IFAP header                                            *)
(*   "garbage" a value that does not start with '{' and is no Fernet token *)
(*   "badjson" a value that starts with '{' and is not JSON                *)
(*   "json"    the metadata md as plaintext JSON                           *)
(*   "token"   the metadata md encrypted under key                         *)
(* by names the client that appended the message.                          *)
(***************************************************************************)
Msg(by, xifap, key, md) == [by |-> by, xifap |-> xifap, key |-> key, md |-> md]

(***************************************************************************)
(* Line 247 of encode_object: in encrypted mode the metadata gets the      *)
(* padding key '_', a run of underscores.                                  *)
(***************************************************************************)
Padded(md) == [k \in DOMAIN md \cup {"_"} |-> IF k = "_" THEN "_" ELSE md[k]]

(***************************************************************************)
(* Lines 183-194 of synchronize: the exception raised inside the try       *)
(* block for message m under configuration cfg, "" when none is raised.    *)
(* Every one of them is in the except clause.                              *)
(***************************************************************************)
ParseError(m, cfg) ==
    CASE m.xifap = "none" -> "AttributeError"
      [] m.xifap = "badjson" -> "ValueError"
      [] m.xifap \in {"garbage", "token"} /\ cfg.key = "none" -> "AttributeError"
      [] m.xifap = "garbage" -> "InvalidToken"
      [] m.xifap = "token" /\ cfg.key # m.key -> "InvalidToken"
      [] "fn" \notin DOMAIN m.md -> "KeyError"
      [] OTHER -> ""

(***************************************************************************)
(* Lines 201-203: the metadata kept in the index, without '_' and 'fn'.    *)
(***************************************************************************)
StripKeys(md) == [k \in DOMAIN md \ {"_", "fn"} |-> md[k]]

(***************************************************************************)
(* self._tree.get(file_path, (-1,))[0]                                     *)
(***************************************************************************)
TreeSeq(t, fn) == IF fn \in DOMAIN t THEN t[fn].seq ELSE -1

TreeSeqs(t) == {t[k].seq : k \in DOMAIN t}

TreePut(t, fn, entry) ==
    [k \in DOMAIN t \cup {fn} |-> IF k = fn THEN entry ELSE t[k]]

(***************************************************************************)
(* The replies of imap.fetch for one message:                              *)
(*   "OK"     ('OK', [(..., header)])                                      *)
(*   "NO"     rv != 'OK'                                                   *)
(*   "NODATA" ('OK', [None]), what imaplib answers when the server sends   *)
(*            no FETCH data: data[0][1] raises TypeError, which the        *)
(*            except clause does not list.                                 *)
(***************************************************************************)
FetchReplies == {"OK", "NO", "NODATA"}

(***************************************************************************)
(* One message of the scan, lines 177-206.  st is the state of the loop:   *)
(* the tree, the sets broken and to_delete, and exc, the exception that    *)
(* escaped ("" while none has).                                            *)
(***************************************************************************)
IndexNewerAlwaysUpdates(t, fn, seq) == FALSE

IndexNewerKeepsFirst(t, fn, seq) == fn \in DOMAIN t

IndexNewer(t, fn, seq) == TreeSeq(t, fn) >= seq

ScanMessage(st, seq, m, reply, cfg) ==
    IF seq \in st.to_delete THEN st
    ELSE IF reply = "NO" THEN [st EXCEPT !.broken = @ \cup {seq}]
    ELSE IF reply = "NODATA" THEN [st EXCEPT !.exc = "TypeError"]
    ELSE IF ParseError(m, cfg) # "" THEN [st EXCEPT !.broken = @ \cup {seq}]
    ELSE LET fn == m.md["fn"] IN
         IF fn = SNAPSHOT_FILE_PATH THEN st
         ELSE IF ~Hashable(fn) THEN [st EXCEPT !.exc = "TypeError"]
         ELSE IF IndexNewer(st.tree, fn, seq) THEN st
         ELSE [st EXCEPT
                 !.to_delete = IF fn \in DOMAIN st.tree
                               THEN @ \cup {st.tree[fn].seq} ELSE @,
                 !.tree = TreePut(@, fn,
                            [seq |-> seq, metadata |-> StripKeys(m.md)])]

(***************************************************************************)
(* for seq in reversed(seqs), from seq down to 1; the loop ends when an    *)
(* exception escapes.                                                      *)
(***************************************************************************)
RECURSIVE Scan(_, _, _, _, _)
Scan(st, seq, msgs, replies, cfg) ==
    IF seq = 0 \/ st.exc # "" THEN st
    ELSE Scan(ScanMessage(st, seq, msgs[seq], replies[seq], cfg),
              seq - 1, msgs, replies, cfg)

(***************************************************************************)
(* The sequences that the loop fetches (line 179) from seq down to 1:      *)
(* every one that is not in to_delete when its turn comes (line 177),      *)
(* until an exception escapes.                                             *)
(***************************************************************************)
RECURSIVE Fetched(_, _, _, _, _)
Fetched(st, seq, msgs, replies, cfg) ==
    IF seq = 0 \/ st.exc # "" THEN {}
    ELSE (IF seq \in st.to_delete THEN {} ELSE {seq})
         \cup Fetched(ScanMessage(st, seq, msgs[seq], replies[seq], cfg),
                      seq - 1, msgs, replies, cfg)

(***************************************************************************)
(* Lines 208-210, after the loop.                                          *)
(***************************************************************************)
Obsolete(st, seqs) ==
    st.to_delete \cup ((seqs \ st.broken) \ TreeSeqs(st.tree))

(***************************************************************************)
(* synchronize on a folder that select and search answered: the new tree,  *)
(* the final broken and to_delete, and the exception raised, if any.       *)
(* An empty folder makes search answer ''; ''.split(' ') is [''] and       *)
(* int('') raises ValueError (line 173).                                   *)
(***************************************************************************)
SyncResult(t, msgs, replies, cfg) ==
    IF Len(msgs) = 0
    THEN [tree |-> t, broken |-> {}, to_delete |-> {}, exc |-> "ValueError"]
    ELSE LET st == Scan([tree |-> t, broken |-> {}, to_delete |-> {}, exc |-> ""],
                        Len(msgs), msgs, replies, cfg)
         IN IF st.exc # "" THEN [st EXCEPT !.broken = {}, !.to_delete = {}]
            ELSE [st EXCEPT !.to_delete = Obsolete(st, 1..Len(msgs))]

(***************************************************************************)
(* Lines 166-172: select or search did not answer OK, IOError is raised    *)
(* before anything is read or written.                                     *)
(***************************************************************************)
SyncAbortedResetsTree(t) ==
    [tree |-> EmptyMap, broken |-> {}, to_delete |-> {}, exc |-> "IOError"]

SyncAborted(t) ==
    [tree |-> t, broken |-> {}, to_delete |-> {}, exc |-> "IOError"]

(***************************************************************************)
(* What the backend answers during one synchronize: to select, to search   *)
(* and to the fetch of each message, the latter drawn from replies.        *)
(***************************************************************************)
Backends(n, replies) ==
    {[select |-> "NO", search |-> "OK", fetch |-> [i \in 1..n |-> "OK"]],
     [select |-> "OK", search |-> "NO", fetch |-> [i \in 1..n |-> "OK"]]}
    \cup {[select |-> "OK", search |-> "OK", fetch |-> r] :
             r \in [1..n -> replies]}

(***************************************************************************)
(* The body of IFAP.synchronize, lines 165-211.                            *)
(***************************************************************************)
SyncCall(t, msgs, cfg, b) ==
    IF b.select # "OK" \/ b.search # "OK"
    THEN SyncAborted(t)
    ELSE SyncResult(t, msgs, b.fetch, cfg)

(***************************************************************************)
(* The outcome of the last call: the operation, the engine, what it        *)
(* raised ("OK" when it returned), the sets broken and to_delete that      *)
(* synchronize computed, and the result of each append of a flush.         *)
(***************************************************************************)
Call(op, e, rv, broken, to_delete, appended) ==
    [op |-> op, eng |-> e, rv |-> rv, broken |-> broken,
     to_delete |-> to_delete, appended |-> appended]

Raised(st) == IF st.exc = "" THEN "OK" ELSE st.exc

(***************************************************************************)
(* IFAP.synchronize.  The with block releases the lock on every path.      *)
(***************************************************************************)
SynchronizeOn(e, b) ==
    LET st == SyncCall(tree[e], folder, config[e], b) IN
    /\ tree' = [tree EXCEPT ![e] = st.tree]
    /\ call' = Call("synchronize", e, Raised(st), st.broken, st.to_delete,
                    EmptyMap)
    /\ UNCHANGED <<folder, unwritten, unwritten_bytes, config, sstack,
                   lock, inside, tail>>

Synchronize(e, replies) ==
    \E b \in Backends(Len(folder), replies) : SynchronizeOn(e, b)

(***************************************************************************)
(* synchronize as the steps of a thread.  The with block (lines 165-206)   *)
(* runs while the thread holds the lock, so it is one step.  Lines 208-211 *)
(* come after the block has released the lock: they are a second step,     *)
(* which reads _tree as it is at that moment.  tail[t] holds the locals    *)
(* seqs, broken and to_delete of a thread t that has left the with block   *)
(* and has not run lines 208-211 yet, NoTail otherwise.                    *)
(***************************************************************************)
NoTail == [eng |-> "none", seqs |-> {}, broken |-> {}, to_delete |-> {}]

WithBlock(t, msgs, cfg, b) ==
    IF b.select # "OK" \/ b.search # "OK" THEN SyncAborted(t)
    ELSE IF Len(msgs) = 0
    THEN [tree |-> t, broken |-> {}, to_delete |-> {}, exc |-> "ValueError"]
    ELSE LET st == Scan([tree |-> t, broken |-> {}, to_delete |-> {}, exc |-> ""],
                        Len(msgs), msgs, b.fetch, cfg)
         IN IF st.exc # "" THEN [st EXCEPT !.broken = {}, !.to_delete = {}]
            ELSE st

SyncWith(t, e, replies) ==
    \E b \in Backends(Len(folder), replies) :
        LET st == WithBlock(tree[e], folder, config[e], b) IN
        /\ tail[t] = NoTail
        /\ lock[e] = 0
        /\ tree' = [tree EXCEPT ![e] = st.tree]
        /\ tail' = [tail EXCEPT ![t] =
                       IF st.exc # "" THEN NoTail
                       ELSE [eng |-> e, seqs |-> 1..Len(folder),
                             broken |-> st.broken, to_delete |-> st.to_delete]]
        /\ call' = Call(IF st.exc # "" THEN "synchronize" ELSE "with", e,
                        Raised(st), st.broken, st.to_delete, EmptyMap)
        /\ UNCHANGED <<folder, unwritten, unwritten_bytes, config, sstack,
                       lock, inside>>

SyncTail(t) ==
    LET e == tail[t].eng
        st == [tree |-> tree[e], broken |-> tail[t].broken,
               to_delete |-> tail[t].to_delete]
    IN
    /\ tail[t] # NoTail
    /\ tail' = [tail EXCEPT ![t] = NoTail]
    /\ call' = Call("synchronize", e, "OK", st.broken,
                    Obsolete(st, tail[t].seqs), EmptyMap)
    /\ UNCHANGED <<folder, tree, unwritten, unwritten_bytes, config, sstack,
                   lock, inside>>

(***************************************************************************)
(* The metadata of the file objects that are staged: IFAP_File keeps it in *)
(* _metadata (line 68) and nothing reads it again.                         *)
(***************************************************************************)
FileMetadata == [versions |-> 2]

(***************************************************************************)
(* mdata.update(metadata), lines 235-236.                                  *)
(***************************************************************************)
Update(mdata, metadata) ==
    [k \in DOMAIN mdata \cup DOMAIN metadata |->
        IF k \in DOMAIN metadata THEN metadata[k] ELSE mdata[k]]

(***************************************************************************)
(* IFAP.encode_object: the message carries fn, bytes and the keys of the   *)
(* metadata argument, and in encrypted mode the padding.                   *)
(***************************************************************************)
EncodeWith(e, file_path, file_data, metadata, cfg) ==
    LET mdata == Update([fn |-> file_path, bytes |-> Len(file_data)], metadata) IN
    IF cfg.encrypt
    THEN Msg(e, "token", cfg.key, Padded(mdata))
    ELSE Msg(e, "json", "none", mdata)

(***************************************************************************)
(* encode_object as flush calls it (lines 289-290), with the path and the  *)
(* contents of the file object and without its metadata.                   *)
(***************************************************************************)
EncodeObject(e, file_path, file_data, cfg) ==
    EncodeWith(e, file_path, file_data, EmptyMap, cfg)

MapPut(u, k, v) == [x \in DOMAIN u \cup {k} |-> IF x = k THEN v ELSE u[x]]

MapDel(u, k) == [x \in DOMAIN u \ {k} |-> u[x]]

(***************************************************************************)
(* One pending path of flush, lines 289-296.  w holds the folder, the      *)
(* unwritten map and the byte counter; ok is the answer of imap.append.    *)
(***************************************************************************)
FlushOneDropsFailed(w, e, file_path, ok, cfg) ==
    [folder |-> IF ok
                THEN Append(w.folder,
                       EncodeObject(e, file_path, w.unwritten[file_path], cfg))
                ELSE w.folder,
     unwritten |-> MapDel(w.unwritten, file_path),
     bytes |-> w.bytes - Len(w.unwritten[file_path])]

FlushOne(w, e, file_path, ok, cfg) ==
    IF ok
    THEN [folder |-> Append(w.folder,
                       EncodeObject(e, file_path, w.unwritten[file_path], cfg)),
          unwritten |-> MapDel(w.unwritten, file_path),
          bytes |-> w.bytes - Len(w.unwritten[file_path])]
    ELSE w

(***************************************************************************)
(* for file_path in self._unwritten.keys(): keys is the order in which     *)
(* the dictionary lists its keys, oks the answer to each append.           *)
(***************************************************************************)
RECURSIVE FlushLoop(_, _, _, _, _)
FlushLoop(w, e, keys, oks, cfg) ==
    IF keys = <<>> THEN w
    ELSE FlushLoop(FlushOne(w, e, Head(keys), oks[Head(keys)], cfg),
                   e, Tail(keys), oks, cfg)

KeyOrders(S) ==
    {o \in [1..Cardinality(S) -> S] : \A k \in S : \E i \in DOMAIN o : o[i] = k}

Appends(S, oks) == Cardinality({k \in S : oks[k]})

(***************************************************************************)
(* IFAP._maybe_flush, lines 299-300.                                       *)
(***************************************************************************)
FlushNow(cfg, bytes) == ~cfg.buffering \/ cfg.buffering_max_bytes < bytes

MaybeFlush(w, e, keys, oks, cfg) ==
    IF FlushNow(cfg, w.bytes) THEN FlushLoop(w, e, keys, oks, cfg) ELSE w

(***************************************************************************)
(* IFAP.flush; answers holds what imap.append may answer (TRUE for OK).    *)
(***************************************************************************)
Flush(e, answers) ==
    \E keys \in KeyOrders(DOMAIN unwritten[e]) :
    \E oks \in [DOMAIN unwritten[e] -> answers] :
        LET w == FlushLoop([folder |-> folder, unwritten |-> unwritten[e],
                            bytes |-> unwritten_bytes[e]],
                           e, keys, oks, config[e]) IN
        /\ Len(folder) + Appends(DOMAIN unwritten[e], oks) <= MaxMsgs
        /\ folder' = w.folder
        /\ unwritten' = [unwritten EXCEPT ![e] = w.unwritten]
        /\ unwritten_bytes' = [unwritten_bytes EXCEPT ![e] = w.bytes]
        /\ call' = Call("flush", e, "OK", {}, {}, oks)
        /\ UNCHANGED <<tree, config, sstack, lock, inside, tail>>

(***************************************************************************)
(* IFAP._set_file, the staging operation that IFAP_File.close calls, with  *)
(* a file object of path file_path and contents file_data.  No IFAP_File   *)
(* can be constructed (see Open), so the file object is one the caller     *)
(* built: _set_file reads its file_path, its length and its getvalue.      *)
(* The counter is capped at MaxCounter: staging a path again adds to it    *)
(* without taking the size of the replaced payload off.                    *)
(***************************************************************************)
SetFile(e, file_path, file_data, answers) ==
    LET u == MapPut(unwritten[e], file_path, file_data)
        staged == [folder |-> folder, unwritten |-> u,
                   bytes |-> unwritten_bytes[e] + Len(file_data)]
        flushes == FlushNow(config[e], staged.bytes)
    IN
    \E keys \in KeyOrders(DOMAIN u) :
    \E oks \in [DOMAIN u -> answers] :
        LET w == MaybeFlush(staged, e, keys, oks, config[e]) IN
        /\ staged.bytes <= MaxCounter
        /\ flushes => Len(folder) + Appends(DOMAIN u, oks) <= MaxMsgs
        /\ folder' = w.folder
        /\ unwritten' = [unwritten EXCEPT ![e] = w.unwritten]
        /\ unwritten_bytes' = [unwritten_bytes EXCEPT ![e] = w.bytes]
        /\ call' = Call("_set_file", e, "OK", {}, {},
                        IF flushes THEN oks ELSE EmptyMap)
        /\ UNCHANGED <<tree, config, sstack, lock, inside, tail>>

(***************************************************************************)
(* IFAP.open: the constructor of IFAP_File reads the undefined name        *)
(* _file_path (line 64), so every open raises NameError after the with     *)
(* block has released the lock; nothing is changed.                        *)
(***************************************************************************)
Open(e, file_path) ==
    /\ call' = Call("open", e, "NameError", {}, {}, EmptyMap)
    /\ UNCHANGED <<folder, tree, unwritten, unwritten_bytes, config, sstack,
                   lock, inside, tail>>

(***************************************************************************)
(* IFAP.__enter__: when synchronize raises, the exception leaves           *)
(* __enter__ with the lock held and the configuration pushed, and the      *)
(* with statement does not run __exit__.                                   *)
(***************************************************************************)
Enter(e, replies) ==
    \E b \in Backends(Len(folder), replies) :
        LET cfg == [config[e] EXCEPT !.buffering = TRUE]
            st == SyncCall(tree[e], folder, cfg, b) IN
        /\ Len(sstack[e]) < MaxDepth
        /\ lock[e] < MaxLock
        /\ lock' = [lock EXCEPT ![e] = @ + 1]
        /\ sstack' = [sstack EXCEPT ![e] = Append(@, config[e])]
        /\ config' = [config EXCEPT ![e] = cfg]
        /\ tree' = [tree EXCEPT ![e] = st.tree]
        /\ inside' = [inside EXCEPT ![e] = IF st.exc = "" THEN @ + 1 ELSE @]
        /\ call' = Call("__enter__", e, Raised(st), st.broken, st.to_delete,
                        EmptyMap)
        /\ UNCHANGED <<folder, unwritten, unwritten_bytes, tail>>

(***************************************************************************)
(* IFAP.__exit__: pop the configuration, _maybe_flush, synchronize, and    *)
(* release the lock unless synchronize raised.                             *)
(***************************************************************************)
Exit(e, replies, answers) ==
    LET cfg == sstack[e][Len(sstack[e])]
        staged == [folder |-> folder, unwritten |-> unwritten[e],
                   bytes |-> unwritten_bytes[e]]
        flushes == FlushNow(cfg, staged.bytes)
    IN
    /\ inside[e] > 0
    /\ \E keys \in KeyOrders(DOMAIN unwritten[e]) :
       \E oks \in [DOMAIN unwritten[e] -> answers] :
          LET w == MaybeFlush(staged, e, keys, oks, cfg) IN
          \E b \in Backends(Len(w.folder), replies) :
             LET st == SyncCall(tree[e], w.folder, cfg, b) IN
             /\ flushes => Len(folder) + Appends(DOMAIN unwritten[e], oks) <= MaxMsgs
             /\ config' = [config EXCEPT ![e] = cfg]
             /\ sstack' = [sstack EXCEPT ![e] = SubSeq(@, 1, Len(@) - 1)]
             /\ folder' = w.folder
             /\ unwritten' = [unwritten EXCEPT ![e] = w.unwritten]
             /\ unwritten_bytes' = [unwritten_bytes EXCEPT ![e] = w.bytes]
             /\ tree' = [tree EXCEPT ![e] = st.tree]
             /\ lock' = [lock EXCEPT ![e] = IF st.exc = "" THEN @ - 1 ELSE @]
             /\ inside' = [inside EXCEPT ![e] = @ - 1]
             /\ call' = Call("__exit__", e, Raised(st), st.broken, st.to_delete,
                             IF flushes THEN oks ELSE EmptyMap)
             /\ UNCHANGED tail

(***************************************************************************)
(* Messages that other clients of the folder append.                       *)
(***************************************************************************)
ForeignMsgs ==
    { Msg("ext", "none", "none", EmptyMap),
      Msg("ext", "garbage", "none", EmptyMap),
      Msg("ext", "badjson", "none", EmptyMap),
      Msg("ext", "json", "none", [bytes |-> 0]),
      Msg("ext", "json", "none", [fn |-> FnInt, bytes |-> 0]),
      Msg("ext", "json", "none", [fn |-> FnList, bytes |-> 0]),
      Msg("ext", "json", "none", [fn |-> SNAPSHOT_FILE_PATH, bytes |-> 0, snap |-> TRUE]),
      Msg("ext", "json", "none", [fn |-> "f", bytes |-> 0, del |-> TRUE]),
      Msg("ext", "json", "none", [fn |-> "f", bytes |-> 1, versions |-> 2]),
      Msg("ext", "json", "none", [fn |-> "f", bytes |-> 0, lock |-> "holder"]),
      Msg("ext", "json", "none", [fn |-> "g", bytes |-> 1]),
      Msg("ext", "token", "k1", Padded([fn |-> "g", bytes |-> 1])),
      Msg("ext", "token", "k2", Padded([fn |-> "g", bytes |-> 1])) }

Inject(m) ==
    /\ Len(folder) < MaxForeign
    /\ folder' = Append(folder, m)
    /\ call' = Call("inject", "ext", "OK", {}, {}, EmptyMap)
    /\ UNCHANGED <<tree, unwritten, unwritten_bytes, config, sstack, lock,
                   inside, tail>>

(***************************************************************************)
(* IFAP.set_encryption_key                                                 *)
(***************************************************************************)
SetEncryptionKey(e, k) ==
    /\ config' = [config EXCEPT ![e].key = k, ![e].encrypt = TRUE]
    /\ call' = Call("set_encryption_key", e, "OK", {}, {}, EmptyMap)
    /\ UNCHANGED <<folder, tree, unwritten, unwritten_bytes, sstack, lock,
                   inside, tail>>

(***************************************************************************)
(* IFAP.__init__ on an empty folder: empty index, nothing staged, the      *)
(* configuration of the keyword arguments.                                 *)
(***************************************************************************)
InitWith(cfgs) ==
    /\ folder = <<>>
    /\ tree = [e \in Engines |-> EmptyMap]
    /\ unwritten = [e \in Engines |-> EmptyMap]
    /\ unwritten_bytes = [e \in Engines |-> 0]
    /\ config \in [Engines -> cfgs]
    /\ sstack = [e \in Engines |-> <<>>]
    /\ lock = [e \in Engines |-> 0]
    /\ inside = [e \in Engines |-> 0]
    /\ tail = [t \in Threads |-> NoTail]
    /\ call = Call("__init__", "X", "OK", {}, {}, EmptyMap)

Init == InitWith({IFAP_Config(DefaultMaxBytes, FALSE)})

(***************************************************************************)
(* Spec: one engine reconciling a folder that other clients write.         *)
(***************************************************************************)
Next ==
    \/ \E m \in ForeignMsgs : Inject(m)
    \/ Synchronize("X", FetchReplies)
    \/ \E k \in {"k1", "k2"} : SetEncryptionKey("X", k)

Spec == Init /\ [][Next]_vars

(***************************************************************************)
(* SpecXY: two engines writing to and reconciling the same folder, whose   *)
(* appends succeed.                                                        *)
(***************************************************************************)
PayloadOf(e) == IF e = "X" THEN "x" ELSE "yz"

NextXY ==
    \/ \E e \in Engines : SetFile(e, "f", PayloadOf(e), {TRUE})
    \/ \E e \in Engines : Synchronize(e, {"OK", "NO"})

SpecXY == Init /\ [][NextXY]_vars

(***************************************************************************)
(* SpecBuf: one engine staging and flushing writes, with and without       *)
(* buffering, inside and outside scoped sessions.                          *)
(***************************************************************************)
InitBuf ==
    InitWith({IFAP_Config(m, FALSE) : m \in {SmallMaxBytes, DefaultMaxBytes}})
    /\ config["Y"] = IFAP_Config(DefaultMaxBytes, FALSE)

Writes == {<<"f", "x">>, <<"g", "yz">>}

NextBuf ==
    \/ \E wr \in Writes : SetFile("X", wr[1], wr[2], BOOLEAN)
    \/ Flush("X", BOOLEAN)
    \/ \E p \in Paths : Open("X", p)
    \/ Enter("X", {"OK"})
    \/ Exit("X", {"OK"}, BOOLEAN)
    \/ Synchronize("X", {"OK"})

SpecBuf == InitBuf /\ [][NextBuf]_vars

(***************************************************************************)
(* SpecSess: one engine, constructed with buffering off or on, that sets   *)
(* an encryption key and stages writes inside and outside scoped sessions. *)
(* Every append and every fetch succeeds, and a session is entered with    *)
(* nothing unwritten, so what is unwritten inside a session was staged     *)
(* inside it.                                                              *)
(***************************************************************************)
InitSess ==
    InitWith({IFAP_Config(DefaultMaxBytes, b) : b \in BOOLEAN})
    /\ config["Y"] = IFAP_Config(DefaultMaxBytes, FALSE)

NextSess ==
    \/ \E wr \in Writes : SetFile("X", wr[1], wr[2], {TRUE})
    \/ Flush("X", {TRUE})
    \/ DOMAIN unwritten["X"] = {} /\ Enter("X", {"OK"})
    \/ Exit("X", {"OK"}, {TRUE})
    \/ SetEncryptionKey("X", "k1")

SpecSess == InitSess /\ [][NextSess]_vars

(***************************************************************************)
(* SpecThr: two threads that call synchronize on the engine X outside any  *)
(* session, while writes are appended to the folder.                       *)
(***************************************************************************)
NextThr ==
    \/ SetFile("X", "f", "x", {TRUE})
    \/ \E t \in Threads : SyncWith(t, "X", {"OK", "NO"})
    \/ \E t \in Threads : SyncTail(t)

SpecThr == Init /\ [][NextThr]_vars

(***************************************************************************)
(* The claims.                                                             *)
(***************************************************************************)
Seqs == 1..Len(folder)

Synced(c, e) == c.op = "synchronize" /\ c.eng = e /\ c.rv = "OK"

Parses(m, cfg) == ParseError(m, cfg) = ""

Names(m, cfg, p) == Parses(m, cfg) /\ m.md["fn"] = p

IsTombstone(m) == "del" \in DOMAIN m.md /\ m.md["del"]

NoFetchFailure(e) == \A s \in call.broken : ~Parses(folder[s], config[e])

Min(a, b) == IF a <= b THEN a ELSE b

RECURSIVE SumLen(_, _)
SumLen(u, S) ==
    IF S = {} THEN 0
    ELSE LET k == CHOOSE x \in S : TRUE IN Len(u[k]) + SumLen(u, S \ {k})

(***************************************************************************)
(* C1: after a synchronize that returned and in which no fetch of a        *)
(* parsable message failed, for every path p named by some parsable        *)
(* message that is not a tombstone, the index entry of p holds the         *)
(* highest sequence among those messages.                                  *)
(***************************************************************************)
LiveRevisions(e, p) ==
    {s \in Seqs : Names(folder[s], config[e], p) /\ ~IsTombstone(folder[s])}

C1_LatestIsMaxLiveRevision ==
    \A e \in Engines : Synced(call, e) /\ NoFetchFailure(e) =>
        \A p \in Paths : LiveRevisions(e, p) # {} =>
            /\ p \in DOMAIN tree[e]
            /\ tree[e][p].seq = Max(LiveRevisions(e, p))

(***************************************************************************)
(* C2: a synchronize that returns right after a synchronize of the same    *)
(* engine that returned (the folder is the same for both) leaves the       *)
(* index as the first one left it.                                         *)
(***************************************************************************)
C2_SynchronizeIdempotent ==
    [][\A e \in Engines : Synced(call, e) /\ Synced(call', e) => tree'[e] = tree[e]]_vars

(***************************************************************************)
(* C3: every message keeps its sequence and a later append gets a higher   *)
(* one; an index changes only in a synchronize of its own engine; and a    *)
(* synchronize that returns, at a moment when the newest message naming f  *)
(* is Y's, was written after one of X's and is fetched, leaves Y's         *)
(* revision as the entry of f, whatever the index held before.             *)
(***************************************************************************)
Revisions(p) == {s \in Seqs : "fn" \in DOMAIN folder[s].md /\ folder[s].md["fn"] = p}

AppendOrder ==
    /\ Len(folder') >= Len(folder)
    /\ \A s \in Seqs : folder'[s] = folder[s]

OwnSyncOnly ==
    \A e \in Engines : tree'[e] # tree[e] => call'.op = "synchronize" /\ call'.eng = e

ReportsLaterAppend ==
    \A e \in Engines : \A sx, sy \in Revisions("f") :
        ( /\ Synced(call', e)
          /\ folder[sx].by = "X" /\ folder[sy].by = "Y" /\ sx < sy
          /\ sy = Max(Revisions("f"))
          /\ sy \notin call'.broken )
        => "f" \in DOMAIN tree'[e] /\ tree'[e]["f"].seq = sy

C3_LaterAppendWins ==
    [][AppendOrder /\ OwnSyncOnly /\ ReportsLaterAppend]_vars

C3_BothReportY ==
    \E sx, sy \in Revisions("f") :
        /\ folder[sx].by = "X" /\ folder[sy].by = "Y" /\ sx < sy
        /\ \A e \in Engines : "f" \in DOMAIN tree[e] /\ tree[e]["f"].seq = sy
        /\ Synced(call, "X")

(***************************************************************************)
(* C4: after a synchronize that returned with nothing broken, for a path   *)
(* whose k revisions all carry versions = v (v = 1 when they carry none),  *)
(* exactly min(k, v) of the revisions are not in to_delete.                *)
(***************************************************************************)
VersionsOf(m) == IF "versions" \in DOMAIN m.md THEN m.md["versions"] ELSE 1

AllRevisions(e, p) == {s \in Seqs : Names(folder[s], config[e], p)}

C4_RetentionKeepsVersions ==
    \A e \in Engines : Synced(call, e) /\ call.broken = {} =>
        \A p \in Paths : \A v \in 1..2 :
            (\A s \in AllRevisions(e, p) : VersionsOf(folder[s]) = v) =>
                Cardinality(AllRevisions(e, p) \ call.to_delete)
                    = Min(Cardinality(AllRevisions(e, p)), v)

(***************************************************************************)
(* C5: after a synchronize that returned, every sequence of the folder is  *)
(* in exactly one of the classes: referenced by the index, the live        *)
(* snapshot (the newest snapshot record), broken, obsolete (to_delete).    *)
(* The engine keeps no lock map: a lock record is a revision of its path.  *)
(***************************************************************************)
Snapshots(e) == {s \in Seqs : Names(folder[s], config[e], SNAPSHOT_FILE_PATH)}

Classes(e, s) ==
    {c \in {"referenced", "snapshot", "broken", "obsolete"} :
        \/ c = "referenced" /\ s \in TreeSeqs(tree[e])
        \/ c = "snapshot" /\ Snapshots(e) # {} /\ s = Max(Snapshots(e))
        \/ c = "broken" /\ s \in call.broken
        \/ c = "obsolete" /\ s \in call.to_delete}

C5_ExactlyOneClass ==
    \A e \in Engines : Synced(call, e) =>
        \A s \in Seqs : Cardinality(Classes(e, s)) = 1

(***************************************************************************)
(* C6: a message that a synchronize classified broken is classified broken *)
(* by the next synchronize of the engine too, and does not enter the       *)
(* index in it.                                                            *)
(***************************************************************************)
C6_BrokenStaysBroken ==
    [][\A e \in Engines : Synced(call, e) /\ Synced(call', e) =>
          /\ call.broken \subseteq call'.broken
          /\ (TreeSeqs(tree'[e]) \cap call.broken) \subseteq TreeSeqs(tree[e])]_vars

(***************************************************************************)
(* C7: on a folder that holds messages, synchronize raises nothing but the *)
(* I/O error of select and search, and when it returns, every message      *)
(* whose metadata does not parse or whose fn is not a string is in broken  *)
(* and is not referenced by the index.                                     *)
(***************************************************************************)
Malformed(m, cfg) == ~Parses(m, cfg) \/ m.md["fn"] \in {FnInt, FnList}

C7_MalformedIsBroken ==
    call.op = "synchronize" /\ Len(folder) > 0 =>
        /\ call.rv \in {"OK", "IOError"}
        /\ call.rv = "OK" =>
              \A s \in Seqs : Malformed(folder[s], config[call.eng]) =>
                  s \in call.broken /\ s \notin TreeSeqs(tree[call.eng])

(***************************************************************************)
(* C8: a synchronize that raises the I/O error of select or search leaves  *)
(* the index of every engine as it was.                                    *)
(***************************************************************************)
C8_IOErrorLeavesIndex ==
    [][call'.op = "synchronize" /\ call'.rv = "IOError" => tree' = tree]_vars

C8_IOErrorWithIndex ==
    /\ call.op = "synchronize" /\ call.rv = "IOError"
    /\ DOMAIN tree[call.eng] # {}
    /\ \E s \in Seqs : s \notin TreeSeqs(tree[call.eng])

(***************************************************************************)
(* C9: no step drops a path from an index or lowers its latest sequence.   *)
(* The witness is an index after a synchronize that could not fetch the    *)
(* message of one entry and could not decrypt the message of another.      *)
(***************************************************************************)
C9_IndexMonotone ==
    [][\A e \in Engines : \A p \in DOMAIN tree[e] :
          p \in DOMAIN tree'[e] /\ tree'[e][p].seq >= tree[e][p].seq]_vars

C9_EntrySurvivesFailedFetch ==
    /\ Synced(call, "X")
    /\ \E p, q \in DOMAIN tree["X"] :
          /\ tree["X"][p].seq \in call.broken
          /\ Parses(folder[tree["X"][p].seq], config["X"])
          /\ tree["X"][q].seq \in call.broken
          /\ ~Parses(folder[tree["X"][q].seq], config["X"])

(***************************************************************************)
(* C10: in a flush, every pending path whose append succeeded is removed   *)
(* from unwritten, every path whose append failed stays with the same      *)
(* payload, the byte counter drops by the sizes of the payloads appended,  *)
(* and no index changes.                                                   *)
(***************************************************************************)
C10_FlushPerPath ==
    [][call'.op = "flush" =>
          LET e == call'.eng
              done == {p \in DOMAIN unwritten[e] : call'.appended[p]}
          IN /\ DOMAIN unwritten'[e] = DOMAIN unwritten[e] \ done
             /\ \A p \in DOMAIN unwritten'[e] : unwritten'[e][p] = unwritten[e][p]
             /\ unwritten_bytes'[e] = unwritten_bytes[e] - SumLen(unwritten[e], done)
             /\ Len(folder') = Len(folder) + Cardinality(done)
             /\ tree' = tree]_vars

C10_FlushHalfDone ==
    /\ call.op = "flush"
    /\ \E p, q \in DOMAIN call.appended :
          /\ call.appended[p] /\ ~call.appended[q]
          /\ p \notin DOMAIN unwritten[call.eng]
          /\ q \in DOMAIN unwritten[call.eng]
    /\ DOMAIN tree[call.eng] # {}

(***************************************************************************)
(* C11: a flush, a staging or a session exit in which some append failed   *)
(* does not return normally: the failure reaches the caller as an error.   *)
(***************************************************************************)
AppendFailed(c) == \E p \in DOMAIN c.appended : ~c.appended[p]

C11_AppendFailurePropagates ==
    call.op \in {"flush", "_set_file", "__exit__"} /\ AppendFailed(call) =>
        call.rv # "OK"

(***************************************************************************)
(* C12: when a staging (the close of a write-mode handle) has returned and *)
(* every append it made succeeded, either buffering is off and nothing is  *)
(* unwritten, or buffering is on and the byte counter is at most           *)
(* buffering_max_bytes.                                                    *)
(***************************************************************************)
C12_BufferingPolicy ==
    call.op = "_set_file" /\ call.rv = "OK" /\ ~AppendFailed(call) =>
        LET e == call.eng IN
        \/ ~config[e].buffering /\ DOMAIN unwritten[e] = {}
        \/ config[e].buffering
             /\ unwritten_bytes[e] <= config[e].buffering_max_bytes

(***************************************************************************)
(* C13: the exit of a scoped session flushes.  After an exit that returned *)
(* and in which no append failed, nothing is unwritten, so every write     *)
(* staged during the session is in the folder, and the synchronize of the  *)
(* exit has made every message the engine wrote visible: its path is in    *)
(* the index at that sequence or a later one.                              *)
(***************************************************************************)
WrittenBy(e) == {s \in Seqs : folder[s].by = e}

C13_ExitFlushes ==
    call.op = "__exit__" /\ call.rv = "OK" /\ ~AppendFailed(call) =>
        LET e == call.eng IN
        /\ DOMAIN unwritten[e] = {}
        /\ \A s \in WrittenBy(e) :
              /\ folder[s].md["fn"] \in DOMAIN tree[e]
              /\ tree[e][folder[s].md["fn"]].seq >= s

(***************************************************************************)
(* C14: a scoped session ends when __enter__ raises the I/O error of       *)
(* synchronize or when __exit__ returns or raises it.  A step that ends a  *)
(* session leaves the hold count of the engine's lock and the depth of its *)
(* configuration stack at what they were before the entry: unchanged by an *)
(* entry that raises, one less after an exit.                              *)
(***************************************************************************)
EndsSession(c) ==
    \/ c.op = "__enter__" /\ c.rv = "IOError"
    \/ c.op = "__exit__" /\ c.rv \in {"OK", "IOError"}

Entered(c) == IF c.op = "__exit__" THEN 1 ELSE 0

C14_SessionReleases ==
    [][EndsSession(call') =>
          LET e == call'.eng IN
          /\ lock'[e] = lock[e] - Entered(call')
          /\ Len(sstack'[e]) = Len(sstack[e]) - Entered(call')]_vars

(***************************************************************************)
(* C15: an open by an engine that has written a path, the write being      *)
(* still unwritten or already appended, returns a handle (whose contents   *)
(* are the data written): it does not raise.                               *)
(***************************************************************************)
HasWritten(e) == DOMAIN unwritten[e] # {} \/ WrittenBy(e) # {}

C15_OpenSeesOwnWrite ==
    call.op = "open" /\ HasWritten(call.eng) => call.rv = "OK"

(***************************************************************************)
(* C16: in a state where the engine's encryption key has been set, every   *)
(* message that a step of the engine appends is in encrypted mode: this    *)
(* holds of a staging, of a flush and of the exit of the session inside    *)
(* which the key was set.                                                  *)
(***************************************************************************)
AppendedSeqs == (Len(folder) + 1)..Len(folder')

C16_EncryptedOnceKeySet ==
    [][\A e \in Engines : config[e].encrypt =>
          \A s \in AppendedSeqs :
              folder'[s].by = e => folder'[s].xifap = "token"]_vars

(***************************************************************************)
(* C17: after a synchronize that returned, the index entry of a path whose *)
(* latest revision the engines wrote from a file object holds every key of *)
(* the file object's metadata with its value, and holds what the message   *)
(* carries without fn and the padding key.                                 *)
(***************************************************************************)
C17_HandleMetadataStored ==
    \A e \in Engines : Synced(call, e) =>
        \A p \in DOMAIN tree[e] :
            LET m == folder[tree[e][p].seq] IN
            m.by \in Engines =>
                /\ \A k \in DOMAIN FileMetadata :
                      /\ k \in DOMAIN tree[e][p].metadata
                      /\ tree[e][p].metadata[k] = FileMetadata[k]
                /\ tree[e][p].metadata = StripKeys(m.md)

(***************************************************************************)
(* C18: no two threads are inside the state accesses of the operations at  *)
(* the same time.  While a thread is inside synchronize, between its with  *)
(* block and its read of the index in lines 208-211, no step of another    *)
(* thread writes the index of that engine.                                 *)
(***************************************************************************)
InsideSynchronize(t) == tail[t] # NoTail /\ tail'[t] = tail[t]

C18_OneThreadInside ==
    [][\A t \in Threads : InsideSynchronize(t) =>
          tree'[tail[t].eng] = tree[tail[t].eng]]_vars

(***************************************************************************)
(* C19: after a synchronize that returned on a folder that holds snapshot  *)
(* records, the newest snapshot record is not in to_delete.                *)
(***************************************************************************)
C19_NewestSnapshotKept ==
    \A e \in Engines : Synced(call, e) /\ Snapshots(e) # {} =>
        Max(Snapshots(e)) \notin call.to_delete

(***************************************************************************)
(* C20: after a synchronize that returned with nothing broken, of two or   *)
(* more lock records for the same path the one with the lowest sequence is *)
(* kept as the winner and the others are in to_delete.  The engine keeps   *)
(* no lock map: what it keeps of a record is its index entry.              *)
(***************************************************************************)
LockRecords(e, p) ==
    {s \in Seqs : Names(folder[s], config[e], p) /\ "lock" \in DOMAIN folder[s].md}

Lowest(S) == CHOOSE x \in S : \A y \in S : x <= y

C20_LowerLockWins ==
    \A e \in Engines : Synced(call, e) /\ call.broken = {} =>
        \A p \in Paths : Cardinality(LockRecords(e, p)) >= 2 =>
            /\ Lowest(LockRecords(e, p)) \notin call.to_delete
            /\ \A s \in LockRecords(e, p) \ {Lowest(LockRecords(e, p))} :
                  s \in call.to_delete

(***************************************************************************)
(* C21: after a synchronize that returned and in which no fetch of a       *)
(* parsable message failed, a path whose newest parsable record is a       *)
(* tombstone is not a file of the index, and every older record of the     *)
(* path is in to_delete.                                                   *)
(***************************************************************************)
Tombstoned(e, p) ==
    AllRevisions(e, p) # {} /\ IsTombstone(folder[Max(AllRevisions(e, p))])

C21_TombstoneDeletes ==
    \A e \in Engines : Synced(call, e) /\ NoFetchFailure(e) =>
        \A p \in Paths : Tombstoned(e, p) =>
            /\ p \notin DOMAIN tree[e]
            /\ \A s \in AllRevisions(e, p) \ {Max(AllRevisions(e, p))} :
                  s \in call.to_delete

(***************************************************************************)
(* C22: in whatever state synchronize is called and whatever the fetches   *)
(* answer, once its scan has fetched a message that the index already      *)
(* refers to (a previous synchronize processed it), it fetches no message  *)
(* with a lower sequence.                                                  *)
(***************************************************************************)
ScanFetches(e, replies) ==
    Fetched([tree |-> tree[e], broken |-> {}, to_delete |-> {}, exc |-> ""],
            Len(folder), folder, replies, config[e])

C22_ScanStopsAtKnown ==
    \A e \in Engines : \A replies \in [Seqs -> FetchReplies] :
        \A k \in ScanFetches(e, replies) \cap TreeSeqs(tree[e]) :
            \A s \in ScanFetches(e, replies) : s >= k

(***************************************************************************)
(* C23: the byte counter of every engine equals the sum of the sizes of    *)
(* the payloads in its unwritten map, 0 when the map is empty.             *)
(***************************************************************************)
C23_CounterExact ==
    \A e \in Engines :
        unwritten_bytes[e] = SumLen(unwritten[e], DOMAIN unwritten[e])

(***************************************************************************)
(* C24: a synchronize on a folder that holds no message, whose select and  *)
(* search succeed, returns, leaves the index empty and computes empty      *)
(* broken and to_delete.                                                   *)
(***************************************************************************)
C24_EmptyFolderSynchronizes ==
    call.op = "synchronize" /\ Len(folder) = 0 /\ call.rv # "IOError" =>
        /\ call.rv = "OK"
        /\ DOMAIN tree[call.eng] = {}
        /\ call.broken = {} /\ call.to_delete = {}

====
